---- MODULE Spec2Model ----
(***************************************************************************)
(* Model of the ESP32-CAM image pipeline: the FastAPI backend              *)
(* (src/fastapi_backend.py) and the Streamlit dashboard                    *)
(* (src/streamlit_dashboard.py), two processes sharing the directory       *)
(* captured_images/ and its metadata.json.                                 *)
(*                                                                         *)
(* Texts are sequences of one-character strings, so that `in`, lower(),    *)
(* strip() and slicing are computed as Python computes them.               *)
(***************************************************************************)
EXTENDS Integers, Sequences, FiniteSets, TLC

(* ------------------------------- bounds -------------------------------- *)
\* backend request slots (requests the backend receives in one run)
NReq == 2
\* script runs of the dashboard that upload or clear
MaxDashRuns == 1
\* the wall clock runs over the ticks 0..MaxClock
MaxClock == 1
\* ticks of the clock in one second (the resolution of datetime.now())
TicksPerSec == 1

(* -------------------------- program constants -------------------------- *)
\* len(ai_response) > 100
OledMax == 100
\* ai_response[:97] + "..."
OledCut == 97
\* str(e)[:50]
ErrCut == 50

(* ------------------------------- texts --------------------------------- *)
Min(a, b) == IF a < b THEN a ELSE b

\* s[:n]
Take(s, n) == SubSeq(s, 1, Min(n, Len(s)))

\* sub in s
Contains(sub, s) ==
  \E i \in 0..(Len(s) - Len(sub)) : SubSeq(s, i + 1, i + Len(sub)) = sub

UpperLetters ==
  <<"A","B","C","D","E","F","G","H","I","J","K","L","M",
    "N","O","P","Q","R","S","T","U","V","W","X","Y","Z">>
LowerLetters ==
  <<"a","b","c","d","e","f","g","h","i","j","k","l","m",
    "n","o","p","q","r","s","t","u","v","w","x","y","z">>

LowerChar(c) ==
  IF \E i \in 1..26 : UpperLetters[i] = c
  THEN LowerLetters[CHOOSE i \in 1..26 : UpperLetters[i] = c]
  ELSE c

\* s.lower()
Lower(s) == [i \in 1..Len(s) |-> LowerChar(s[i])]

RECURSIVE LStrip(_)
LStrip(s) == IF s # <<>> /\ Head(s) = " " THEN LStrip(Tail(s)) ELSE s
RECURSIVE RStrip(_)
RStrip(s) ==
  IF s # <<>> /\ s[Len(s)] = " " THEN RStrip(SubSeq(s, 1, Len(s) - 1)) ELSE s
\* s.strip()
Strip(s) == RStrip(LStrip(s))

\* c * n
Rep(c, n) == [i \in 1..n |-> c]

ErrorPrefix == <<"E","r","r","o","r",":"," ">>
DetailedPrefix ==
  <<"D","e","t","a","i","l","e","d"," ","a","n","a","l","y","s","i","s"," ",
    "e","r","r","o","r",":"," ">>
Dots == <<".",".",".">>

(* ------------------------- texts of the run ---------------------------- *)
\* response.text of the short prompt: padded with blanks and too long for
\* the OLED
RawLong == <<" ">> \o Rep("a", OledMax + 1) \o <<" ">>
\* response.text of the detailed prompt
RawScene == <<"s","c","e","n","e",".">>
\* str(e) of exceptions
KeyUpperText == <<"A","P","I","_","K","E","Y">>
KeyLowerText == <<"a","p","i","_","k","e","y">>
KeyMixedText == <<"A","p","i","_","K","e","y">>
QuotaLowText == <<"D","i","s","k"," ","q","u","o","t","a">>
QuotaCapText == <<"Q","U","O","T","A">>
KeyAndQuotaText == KeyUpperText \o <<" ">> \o QuotaCapText
NoSpaceText == <<"N","o"," ","s","p","a","c","e">>
\* 429 RESOURCE_EXHAUSTED ... quota ..., longer than ErrCut
QuotaLongText == <<"4","2","9"," ","q","u","o","t","a"," ">> \o Rep("x", ErrCut)
\* PIL.UnidentifiedImageError
CannotIdentifyText ==
  <<"c","a","n","n","o","t"," ","i","d","e","n","t","i","f","y">>
\* json.JSONDecodeError of a file that is not a JSON document
ExpectingValueText ==
  <<"E","x","p","e","c","t","i","n","g"," ","v","a","l","u","e">>
\* FileNotFoundError of unlink
NoSuchFileText == <<"N","o"," ","s","u","c","h"," ","f","i","l","e">>

\* what an exception of the operating system may say
OSErrorTexts ==
  {KeyUpperText, KeyLowerText, KeyMixedText, QuotaLowText, QuotaCapText,
   KeyAndQuotaText, NoSpaceText}

\* outcomes of the two calls of client.models.generate_content of one
\* upload: each a response or an exception
ApiText(text) == [ok |-> TRUE, text |-> text]
ApiRaises(text) == [ok |-> FALSE, text |-> text]
VisionOutcomes ==
  {<<ApiText(RawLong), ApiText(RawScene)>>,
   <<ApiRaises(QuotaLongText), ApiRaises(KeyUpperText)>>}

(* ------------------------------ images --------------------------------- *)
NoImage == [mode |-> "none", w |-> 0, h |-> 0]
EmptyBody == [kind |-> "empty", mode |-> "none", w |-> 0, h |-> 0]
GarbageBody == [kind |-> "garbage", mode |-> "none", w |-> 0, h |-> 0]
RgbBody == [kind |-> "image", mode |-> "RGB", w |-> 2, h |-> 1]
GrayBody == [kind |-> "image", mode |-> "L", w |-> 1, h |-> 1]
\* request bodies the device may send
Bodies == {EmptyBody, GarbageBody, GrayBody}
\* files the dashboard's uploader may hold
DashBodies == {GarbageBody, RgbBody}

\* Image.open(io.BytesIO(img_bytes)): raises unless the bytes are an image
ImageOpen(body) ==
  [ok |-> body.kind = "image",
   image |-> [mode |-> body.mode, w |-> body.w, h |-> body.h]]

\* if image.mode != 'RGB': image = image.convert('RGB')
ConvertRGB(image) ==
  IF image.mode # "RGB" THEN [image EXCEPT !.mode = "RGB"] ELSE image

(* --------------------------- time and names ---------------------------- *)
\* a local that holds no time yet
NoTime == 0 - 1
\* timestamp.strftime('%Y%m%d_%H%M%S'): the time to the second
StrfTime(ts) == ts \div TicksPerSec
\* f"img_{...}.jpg"
Filename(ts) == <<"img_", StrfTime(ts), ".jpg">>
\* timestamp.isoformat(): the microseconds are left out when they are 0
IsoFormat(ts) ==
  IF ts % TicksPerSec = 0
  THEN <<ts \div TicksPerSec>>
  ELSE <<ts \div TicksPerSec, ts % TicksPerSec>>
\* f"{image.size[0]}x{image.size[1]}"
SizeText(image) == <<image.w, "x", image.h>>
NoName == <<>>

(* ----------------------------- metadata -------------------------------- *)
\* metadata.json: missing, a JSON list, or bytes that are no JSON document.
\* gen tells the files that have had this path apart (unlink ends one);
\* owner is the process that holds the truncated file open, and was the
\* list the file held when it was truncated (history).
AbsentFile(gen) ==
  [state |-> "absent", content |-> <<>>, owner |-> "none", gen |-> gen,
   was |-> <<>>]
JsonFile(list, gen) ==
  [state |-> "json", content |-> list, owner |-> "none", gen |-> gen,
   was |-> <<>>]
PartialFile(who, gen, was) ==
  [state |-> "partial", content |-> <<>>, owner |-> who, gen |-> gen,
   was |-> was]

\* load_metadata(): [] without the file; json.load raises on a file that
\* is no JSON document
load_metadata(mf) == [ok |-> mf.state # "partial", value |-> mf.content]

\* the record list as of the last write that was completed
Persisted(mf) ==
  IF mf.state = "partial" /\ mf.owner # "none" THEN mf.was ELSE mf.content

\* open(METADATA_FILE, 'w'): creates or truncates the file
OpenForWrite(mf, who) == PartialFile(who, mf.gen, Persisted(mf))

\* json.dump(metadata, f) and close, by the process that opened the file
\* when it was file number gen. The bytes land in the file that was opened:
\* if the path was unlinked since, they are lost with it; if the file is
\* still empty, it becomes the dumped list; if another process has written
\* it since the open, the result is this list or an overlay of the two
\* documents, depending on their lengths.
DumpOutcomes(mf, gen, list) ==
  IF mf.gen # gen THEN {mf}
  ELSE IF mf.state = "partial" /\ mf.owner # "none"
       THEN {JsonFile(list, gen)}
       ELSE {JsonFile(list, gen), PartialFile("none", gen, <<>>)}

\* METADATA_FILE.unlink(missing_ok=True)
UnlinkMetadata(mf) ==
  IF mf.state = "absent" THEN mf ELSE AbsentFile(mf.gen + 1)

\* new_entry of upload_image
new_entry(filename, ts, short, detailed, image) ==
  [filename |-> filename, timestamp |-> IsoFormat(ts),
   ai_response_short |-> short, ai_response_detailed |-> detailed,
   size |-> SizeText(image)]

(* ------------------------------ vision --------------------------------- *)
\* process_image_with_gemini: the stripped text, cut for the OLED, or the
\* text of the exception behind "Error: "
process_image_with_gemini(o) ==
  IF o.ok
  THEN LET ai_response == Strip(o.text)
       IN  IF Len(ai_response) > OledMax
           THEN Take(ai_response, OledCut) \o Dots
           ELSE ai_response
  ELSE ErrorPrefix \o Take(o.text, ErrCut)

\* process_image_detailed
process_image_detailed(o) ==
  IF o.ok THEN Strip(o.text) ELSE DetailedPrefix \o o.text

\* oled_msg with "quota" looked for in the text as it is
oled_msg_cased(error_msg) ==
  IF Contains(KeyUpperText, error_msg) \/ Contains(KeyLowerText, error_msg)
  THEN "API key error"
  ELSE IF Contains(<<"q","u","o","t","a">>, error_msg)
       THEN "API quota exceeded"
       ELSE "Processing error"

\* the except branch of upload_image: the message for the OLED
oled_msg(error_msg) ==
  IF Contains(KeyUpperText, error_msg) \/ Contains(KeyLowerText, error_msg)
  THEN "API key error"
  ELSE IF Contains(<<"q","u","o","t","a">>, Lower(error_msg))
       THEN "API quota exceeded"
       ELSE "Processing error"

(* ------------------------------- state --------------------------------- *)
VARIABLES
  clock,     \* datetime.datetime.now()
  files,     \* the .jpg files of captured_images/: name -> image
  metaFile,  \* captured_images/metadata.json
  loop,      \* the request whose handler the event loop is running, or 0
  req,       \* the backend's requests: position and locals
  out,       \* the response the backend sends in this step, and for
             \* which request; NoResponse in a step that sends none
  dash,      \* the dashboard's script run: position and locals
  dashRuns,  \* uploading or clearing runs the dashboard has started
  hist,      \* the records of the uploads acknowledged since the last
             \* clear, in the order of the acknowledgements (history)
  clean      \* so far every operation was a read or an upload that
             \* succeeded (history)

vars == <<clock, files, metaFile, loop, req, out, dash, dashRuns, hist, clean>>

Reqs == 1..NReq

IdleReq ==
  [pc |-> "idle", kind |-> "none", image |-> NoImage, short |-> <<>>,
   detailed |-> <<>>, apiErr |-> {}, ts |-> NoTime, filename |-> NoName,
   metadata |-> <<>>, gen |-> 0, todo |-> {}, did |-> <<>>]

\* a request whose handler has returned
DoneReq == [IdleReq EXCEPT !.pc = "done"]

\* what the server sends for request r, of handler state q
Response(r, q, resp) ==
  [r |-> r, kind |-> q.kind, apiErr |-> q.apiErr, did |-> q.did, resp |-> resp]
NoResponse == Response(0, IdleReq, [code |-> 0])

IdleDash ==
  [pc |-> "idle", image |-> NoImage, short |-> <<>>, detailed |-> <<>>,
   ts |-> NoTime, filename |-> NoName, metadata |-> <<>>, gen |-> 0,
   todo |-> {}]

\* the files of DATA_DIR with f written (created or replaced)
WriteFile(fs, name, image) ==
  [n \in DOMAIN fs \cup {name} |-> IF n = name THEN image ELSE fs[n]]

\* the files of DATA_DIR without f
RemoveFile(fs, name) == [n \in DOMAIN fs \ {name} |-> fs[n]]

\* DATA_DIR.glob("*.jpg")
GlobJpg(fs) == {n \in DOMAIN fs : n[Len(n)] = ".jpg"}

Init ==
  /\ clock = 0
  /\ files = <<>>
  /\ metaFile = AbsentFile(0)
  /\ loop = 0
  /\ req = [r \in Reqs |-> IdleReq]
  /\ out = NoResponse
  /\ dash = IdleDash
  /\ dashRuns = 0
  /\ hist = <<>>
  /\ clean = TRUE

\* time passes
Tick ==
  /\ clock < MaxClock
  /\ clock' = clock + 1
  /\ out' = NoResponse
  /\ UNCHANGED <<files, metaFile, loop, req, dash, dashRuns, hist, clean>>

(* ------------------------------ backend -------------------------------- *)
\* handlers that ran on threads would run at any time
ScheduledAnyTime(r) == TRUE

\* The handlers are coroutines of one event loop (async def, one uvicorn
\* process): a handler runs when the loop is free or its own, and keeps the
\* loop until it awaits or returns.
Scheduled(r) == loop \in {0, r}

\* a request reaches the server; its route is read when its handler starts
Arrive(r) ==
  /\ req[r].pc = "idle"
  /\ \A q \in 1..(r - 1) : req[q].pc # "idle"
  /\ req' = [req EXCEPT ![r] = [@ EXCEPT !.pc = "start"]]
  /\ out' = NoResponse
  /\ UNCHANGED <<clock, files, metaFile, loop, dash, dashRuns, hist, clean>>

\* the handler of request r returns: the server sends its response
Return(r, kind, resp) ==
  /\ req' = [req EXCEPT ![r] = DoneReq]
  /\ out' = Response(r, [req[r] EXCEPT !.kind = kind], resp)

\* the except branch of upload_image: status 500 and the message for the OLED
\* (cause and exc are history: where the exception was raised, and str(e))
UploadError(cause, error_msg) ==
  [code |-> 500, status |-> "error", message |-> oled_msg(error_msg),
   cause |-> cause, exc |-> error_msg]

\* upload_image: await request.body(), the check for an empty body,
\* Image.open and the conversion to RGB
UploadReadBody(r) ==
  /\ req[r].pc = "start"
  /\ Scheduled(r)
  /\ \E img_bytes \in Bodies :
       IF img_bytes = EmptyBody
       THEN /\ Return(r, "upload", [code |-> 400, error |-> "No image data received"])
            /\ loop' = 0
            /\ clean' = FALSE
       ELSE LET opened == ImageOpen(img_bytes) IN
            IF ~opened.ok
            THEN /\ Return(r, "upload", UploadError("decode", CannotIdentifyText))
                 /\ loop' = 0
                 /\ clean' = FALSE
            ELSE /\ req' = [req EXCEPT ![r] =
                      [@ EXCEPT !.pc = "vision", !.kind = "upload",
                                !.image = ConvertRGB(opened.image)]]
                 /\ loop' = r
                 /\ out' = NoResponse
                 /\ clean' = clean
  /\ UNCHANGED <<clock, files, metaFile, dash, dashRuns, hist>>

\* vision calls that let the exception of the API through to the except
\* branch of upload_image
UploadVisionRaises(r) ==
  /\ req[r].pc = "vision" /\ Scheduled(r)
  /\ \E o \in VisionOutcomes :
       IF o[1].ok
       THEN /\ req' = [req EXCEPT ![r] =
                 [@ EXCEPT !.pc = "saveimg",
                           !.short = process_image_with_gemini(o[1]),
                           !.detailed = process_image_detailed(o[2]),
                           !.did = @ \o <<"vision", "vision">>]]
            /\ loop' = r
            /\ out' = NoResponse
       ELSE /\ req' = [req EXCEPT ![r] = DoneReq]
            /\ out' = Response(r, [req[r] EXCEPT !.kind = "upload",
                                                !.apiErr = {"short"},
                                                !.did = <<"vision">>],
                               UploadError("vision", o[1].text))
            /\ loop' = 0
  /\ UNCHANGED <<clock, files, metaFile, dash, dashRuns, hist, clean>>

\* ai_response_short = process_image_with_gemini(image);
\* ai_response_detailed = process_image_detailed(image)
UploadVision(r) ==
  /\ req[r].pc = "vision" /\ Scheduled(r)
  /\ \E o \in VisionOutcomes :
       req' = [req EXCEPT ![r] =
         [@ EXCEPT !.pc = "saveimg",
                   !.short = process_image_with_gemini(o[1]),
                   !.detailed = process_image_detailed(o[2]),
                   !.apiErr = {c \in {"short"} : ~o[1].ok}
                              \cup {c \in {"detailed"} : ~o[2].ok},
                   !.did = @ \o <<"vision", "vision">>]]
  /\ loop' = r
  /\ out' = NoResponse
  /\ UNCHANGED <<clock, files, metaFile, dash, dashRuns, hist, clean>>

\* timestamp, filename, image.save(filepath, "JPEG")
UploadSaveImage(r) ==
  /\ req[r].pc = "saveimg" /\ Scheduled(r)
  /\ LET timestamp == clock
         filename == Filename(timestamp)
     IN \/ /\ files' = WriteFile(files, filename, req[r].image)
           /\ req' = [req EXCEPT ![r] =
                [@ EXCEPT !.pc = "load", !.ts = timestamp, !.filename = filename,
                          !.did = Append(@, "image")]]
           /\ loop' = r
           /\ out' = NoResponse
           /\ clean' = clean
        \/ \E e \in OSErrorTexts :
           /\ Return(r, "upload", UploadError("image", e))
           /\ loop' = 0
           /\ files' = files
           /\ clean' = FALSE
  /\ UNCHANGED <<clock, metaFile, dash, dashRuns, hist>>

\* metadata = load_metadata()
UploadLoad(r) ==
  /\ req[r].pc = "load" /\ Scheduled(r)
  /\ LET loaded == load_metadata(metaFile) IN
     \/ /\ loaded.ok
        /\ req' = [req EXCEPT ![r] =
             [@ EXCEPT !.pc = "open", !.metadata = loaded.value]]
        /\ loop' = r
        /\ out' = NoResponse
        /\ clean' = clean
     \/ /\ ~loaded.ok
        /\ Return(r, "upload", UploadError("load", ExpectingValueText))
        /\ loop' = 0
        /\ clean' = FALSE
     \/ \E e \in OSErrorTexts :
        /\ Return(r, "upload", UploadError("load", e))
        /\ loop' = 0
        /\ clean' = FALSE
  /\ UNCHANGED <<clock, files, metaFile, dash, dashRuns, hist>>

\* the record upload_image appends
UploadEntry(q) == new_entry(q.filename, q.ts, q.short, q.detailed, q.image)

\* metadata.append(new_entry); save_metadata: open(METADATA_FILE, 'w')
UploadOpen(r) ==
  /\ req[r].pc = "open" /\ Scheduled(r)
  /\ \/ /\ metaFile' = OpenForWrite(metaFile, "backend")
        /\ req' = [req EXCEPT ![r] =
             [@ EXCEPT !.pc = "dump", !.metadata = Append(@, UploadEntry(req[r])),
                       !.gen = metaFile.gen]]
        /\ loop' = r
        /\ out' = NoResponse
        /\ clean' = clean
     \/ \E e \in OSErrorTexts :
        /\ Return(r, "upload", UploadError("save", e))
        /\ loop' = 0
        /\ metaFile' = metaFile
        /\ clean' = FALSE
  /\ UNCHANGED <<clock, files, dash, dashRuns, hist>>

\* an upload that answers without having written the list
UploadDumpSkipped(r) ==
  /\ req[r].pc = "dump" /\ req[r].kind = "upload" /\ Scheduled(r)
  /\ metaFile' = metaFile
  /\ req' = [req EXCEPT ![r] = [@ EXCEPT !.pc = "respond"]]
  /\ loop' = r
  /\ out' = NoResponse
  /\ UNCHANGED <<clock, files, dash, dashRuns, hist, clean>>

\* save_metadata: json.dump(metadata, f) and close
UploadDump(r) ==
  /\ req[r].pc = "dump" /\ req[r].kind = "upload" /\ Scheduled(r)
  /\ metaFile' \in DumpOutcomes(metaFile, req[r].gen, req[r].metadata)
  /\ req' = [req EXCEPT ![r] = [@ EXCEPT !.pc = "respond", !.did = Append(@, "metadata")]]
  /\ loop' = r
  /\ out' = NoResponse
  /\ UNCHANGED <<clock, files, dash, dashRuns, hist, clean>>

\* return JSONResponse(status_code=200, ...)
UploadRespond(r) ==
  /\ req[r].pc = "respond" /\ Scheduled(r)
  /\ Return(r, "upload", [code |-> 200, status |-> "success", message |-> req[r].short,
                filename |-> req[r].filename])
  /\ hist' = Append(hist, req[r].metadata[Len(req[r].metadata)])
  /\ loop' = 0
  /\ UNCHANGED <<clock, files, metaFile, dash, dashRuns, clean>>

upload_image(r) ==
  \/ UploadReadBody(r)
  \/ UploadVision(r)
  \/ UploadSaveImage(r)
  \/ UploadLoad(r)
  \/ UploadOpen(r)
  \/ UploadDump(r)
  \/ UploadRespond(r)

\* list_images: GET /images. An exception of load_metadata is not caught
\* here: the server answers 500 Internal Server Error.
list_images(r) ==
  /\ req[r].pc = "start"
  /\ Scheduled(r)
  /\ LET loaded == load_metadata(metaFile) IN
     Return(r, "images",
       IF loaded.ok
       THEN [code |-> 200, total |-> Len(loaded.value), images |-> loaded.value]
       ELSE [code |-> 500, error |-> "Internal Server Error"])
  /\ loop' = 0
  /\ UNCHANGED <<clock, files, metaFile, dash, dashRuns, hist, clean>>

\* get_latest: GET /latest
get_latest(r) ==
  /\ req[r].pc = "start"
  /\ Scheduled(r)
  /\ LET loaded == load_metadata(metaFile)
         metadata == loaded.value
     IN Return(r, "latest",
          IF ~loaded.ok
          THEN [code |-> 500, error |-> "Internal Server Error"]
          ELSE IF metadata # <<>>
               THEN [code |-> 200, latest |-> metadata[Len(metadata)]]
               ELSE [code |-> 200, message |-> "No images yet"])
  /\ loop' = 0
  /\ UNCHANGED <<clock, files, metaFile, dash, dashRuns, hist, clean>>

\* the except branch of clear_all
ClearError(e) == [code |-> 500, status |-> "error", text |-> e]

\* clear_all: DATA_DIR.glob("*.jpg") lists the directory
ClearGlob(r) ==
  /\ req[r].pc = "start"
  /\ Scheduled(r)
  /\ req' = [req EXCEPT ![r] =
       [@ EXCEPT !.pc = "unlink", !.kind = "clear", !.todo = GlobJpg(files)]]
  /\ loop' = r
  /\ clean' = FALSE
  /\ out' = NoResponse
  /\ UNCHANGED <<clock, files, metaFile, dash, dashRuns, hist>>

\* a clear that goes through the files without unlinking them
ClearUnlinkKeeps(r) ==
  /\ req[r].pc = "unlink" /\ Scheduled(r)
  /\ \E img_file \in req[r].todo :
       /\ files' = files
       /\ req' = [req EXCEPT ![r] = [@ EXCEPT !.todo = @ \ {img_file}]]
       /\ loop' = r
       /\ out' = NoResponse
  /\ UNCHANGED <<clock, metaFile, dash, dashRuns, hist, clean>>

\* clear_all: img_file.unlink(), which raises when the file is gone
ClearUnlink(r) ==
  /\ req[r].pc = "unlink" /\ Scheduled(r)
  /\ \E img_file \in req[r].todo :
       IF img_file \in DOMAIN files
       THEN /\ files' = RemoveFile(files, img_file)
            /\ req' = [req EXCEPT ![r] = [@ EXCEPT !.todo = @ \ {img_file}]]
            /\ loop' = r
            /\ out' = NoResponse
       ELSE /\ files' = files
            /\ Return(r, "clear", ClearError(NoSuchFileText))
            /\ loop' = 0
  /\ UNCHANGED <<clock, metaFile, dash, dashRuns, hist, clean>>

\* clear_all: save_metadata([]), open(METADATA_FILE, 'w')
ClearOpen(r) ==
  /\ req[r].pc = "unlink" /\ Scheduled(r)
  /\ req[r].todo = {}
  /\ \/ /\ metaFile' = OpenForWrite(metaFile, "backend")
        /\ req' = [req EXCEPT ![r] = [@ EXCEPT !.pc = "dump", !.gen = metaFile.gen]]
        /\ loop' = r
        /\ out' = NoResponse
     \/ \E e \in OSErrorTexts :
        /\ Return(r, "clear", ClearError(e))
        /\ loop' = 0
        /\ metaFile' = metaFile
  /\ UNCHANGED <<clock, files, dash, dashRuns, hist, clean>>

\* clear_all: json.dump([], f), close, and the response
ClearDump(r) ==
  /\ req[r].pc = "dump" /\ req[r].kind = "clear" /\ Scheduled(r)
  /\ metaFile' \in DumpOutcomes(metaFile, req[r].gen, <<>>)
  /\ Return(r, "clear", [code |-> 200, status |-> "success", message |-> "All data cleared"])
  /\ hist' = <<>>
  /\ loop' = 0
  /\ UNCHANGED <<clock, files, dash, dashRuns, clean>>

clear_all(r) ==
  \/ ClearGlob(r)
  \/ ClearUnlink(r)
  \/ ClearOpen(r)
  \/ ClearDump(r)

(* ----------------------------- dashboard ------------------------------- *)
\* short_responses and detailed_responses of process_image_with_ai
ShortPerson ==
  <<"P","e","r","s","o","n"," ","d","e","t","e","c","t","e","d">>
DetailedPerson ==
  <<"I","m","a","g","e"," ","s","h","o","w","s"," ","a"," ","p","e","r","s",
    "o","n"," ","i","n"," ","t","h","e"," ","f","r","a","m","e"," ","w","i",
    "t","h"," ","g","o","o","d"," ","l","i","g","h","t","i","n","g"," ","c",
    "o","n","d","i","t","i","o","n","s","."," ","N","o"," ","u","n","u","s",
    "u","a","l"," ","a","c","t","i","v","i","t","y"," ","d","e","t","e","c",
    "t","e","d",".">>
ShortMotion ==
  <<"M","o","t","i","o","n"," ","i","n"," ","f","r","a","m","e">>
DetailedMotion ==
  <<"M","o","t","i","o","n"," ","d","e","t","e","c","t","e","d"," ","i","n",
    " ","t","h","e"," ","c","e","n","t","r","a","l"," ","a","r","e","a",".",
    " ","S","c","e","n","e"," ","a","p","p","e","a","r","s"," ","t","o"," ",
    "b","e"," ","i","n","d","o","o","r","s"," ","w","i","t","h"," ","m","o",
    "d","e","r","a","t","e"," ","l","i","g","h","t","i","n","g",".">>
ShortClear ==
  <<"C","l","e","a","r"," ","v","i","e","w">>
DetailedClear ==
  <<"C","l","e","a","r"," ","v","i","e","w"," ","o","f"," ","t","h","e"," ",
    "m","o","n","i","t","o","r","e","d"," ","a","r","e","a","."," ","N","o",
    " ","o","b","j","e","c","t","s"," ","o","f"," ","c","o","n","c","e","r",
    "n"," ","i","d","e","n","t","i","f","i","e","d",".">>
ShortLowLight ==
  <<"L","o","w"," ","l","i","g","h","t"," ","d","e","t","e","c","t","e",
    "d">>
DetailedLowLight ==
  <<"L","o","w"," ","l","i","g","h","t"," ","c","o","n","d","i","t","i","o",
    "n","s"," ","d","e","t","e","c","t","e","d","."," ","C","o","n","s","i",
    "d","e","r"," ","i","m","p","r","o","v","i","n","g"," ","i","l","l","u",
    "m","i","n","a","t","i","o","n"," ","f","o","r"," ","b","e","t","t","e",
    "r"," ","i","m","a","g","e"," ","q","u","a","l","i","t","y",".">>

\* random.randint(0, len(short_responses) - 1): the indices drawn here
DashIdx == {0, 3}

\* process_image_with_ai: the pair at a random index
process_image_with_ai(idx) ==
  CASE idx = 0 -> <<ShortPerson, DetailedPerson>>
    [] idx = 1 -> <<ShortMotion, DetailedMotion>>
    [] idx = 2 -> <<ShortClear, DetailedClear>>
    [] idx = 3 -> <<ShortLowLight, DetailedLowLight>>

\* the record main appends for a manual upload
MainEntry(d) ==
  [filename |-> d.filename, timestamp |-> IsoFormat(d.ts),
   ai_response_short |-> d.short, ai_response_detailed |-> d.detailed]

\* the record handle_upload appends (handle_upload has no caller)
HandleUploadEntry(filename, ts, ai_response) ==
  [filename |-> filename, timestamp |-> IsoFormat(ts), ai_response |-> ai_response]

\* main, if uploaded_file: Image.open and process_image_with_ai. Here and
\* below an exception ends the script run.
DashUploadOpen ==
  /\ dash.pc = "idle" /\ dashRuns < MaxDashRuns
  /\ dashRuns' = dashRuns + 1
  /\ \E img_bytes \in DashBodies, idx \in DashIdx :
       LET opened == ImageOpen(img_bytes)
           ai == process_image_with_ai(idx)
       IN /\ dash' = IF opened.ok
                     THEN [IdleDash EXCEPT !.pc = "saveimg", !.image = opened.image,
                                           !.short = ai[1], !.detailed = ai[2]]
                     ELSE IdleDash
          /\ clean' = (clean /\ opened.ok)
  /\ out' = NoResponse
  /\ UNCHANGED <<clock, files, metaFile, loop, req, hist>>

\* main: timestamp, filename, image.save(filepath)
DashSaveImage ==
  /\ dash.pc = "saveimg"
  /\ LET timestamp == clock
         filename == Filename(timestamp)
     IN \/ /\ files' = WriteFile(files, filename, dash.image)
           /\ dash' = [dash EXCEPT !.pc = "load", !.ts = timestamp,
                                   !.filename = filename]
           /\ clean' = clean
        \/ /\ dash' = IdleDash
           /\ files' = files
           /\ clean' = FALSE
  /\ out' = NoResponse
  /\ UNCHANGED <<clock, metaFile, loop, req, dashRuns, hist>>

\* main: metadata = load_metadata()
DashLoad ==
  /\ dash.pc = "load"
  /\ LET loaded == load_metadata(metaFile) IN
     /\ dash' = IF loaded.ok
                THEN [dash EXCEPT !.pc = "open", !.metadata = loaded.value]
                ELSE IdleDash
     /\ clean' = (clean /\ loaded.ok)
  /\ out' = NoResponse
  /\ UNCHANGED <<clock, files, metaFile, loop, req, dashRuns, hist>>

\* a manual upload that saves its record alone, without the list it loaded
DashOpenOverwrites ==
  /\ dash.pc = "open"
  /\ \/ /\ metaFile' = OpenForWrite(metaFile, "dashboard")
        /\ dash' = [dash EXCEPT !.pc = "dump", !.metadata = <<MainEntry(dash)>>,
                                !.gen = metaFile.gen]
        /\ clean' = clean
     \/ /\ dash' = IdleDash
        /\ metaFile' = metaFile
        /\ clean' = FALSE
  /\ out' = NoResponse
  /\ UNCHANGED <<clock, files, loop, req, dashRuns, hist>>

\* main: metadata.append({...}); save_metadata: open(METADATA_FILE, 'w')
DashOpen ==
  /\ dash.pc = "open"
  /\ \/ /\ metaFile' = OpenForWrite(metaFile, "dashboard")
        /\ dash' = [dash EXCEPT !.pc = "dump", !.metadata = Append(@, MainEntry(dash)),
                                !.gen = metaFile.gen]
        /\ clean' = clean
     \/ /\ dash' = IdleDash
        /\ metaFile' = metaFile
        /\ clean' = FALSE
  /\ out' = NoResponse
  /\ UNCHANGED <<clock, files, loop, req, dashRuns, hist>>

\* main: json.dump(metadata, f), close, st.success, st.rerun()
DashDump ==
  /\ dash.pc = "dump"
  /\ metaFile' \in DumpOutcomes(metaFile, dash.gen, dash.metadata)
  /\ hist' = Append(hist, dash.metadata[Len(dash.metadata)])
  /\ dash' = IdleDash
  /\ out' = NoResponse
  /\ UNCHANGED <<clock, files, loop, req, dashRuns, clean>>

\* main, "Clear All Data" with "Confirm deletion": DATA_DIR.glob("*.jpg").
\* The values of the two widgets are inputs of the script run.
DashClearGlob ==
  /\ dash.pc = "idle" /\ dashRuns < MaxDashRuns
  /\ dashRuns' = dashRuns + 1
  /\ \E button \in BOOLEAN, checkbox \in BOOLEAN :
       /\ button /\ checkbox
       /\ dash' = [IdleDash EXCEPT !.pc = "unlink", !.todo = GlobJpg(files)]
  /\ clean' = FALSE
  /\ out' = NoResponse
  /\ UNCHANGED <<clock, files, metaFile, loop, req, hist>>

\* main: f.unlink(), which raises when the file is gone
DashUnlink ==
  /\ dash.pc = "unlink"
  /\ \E f \in dash.todo :
       IF f \in DOMAIN files
       THEN /\ files' = RemoveFile(files, f)
            /\ dash' = [dash EXCEPT !.todo = @ \ {f}]
       ELSE /\ files' = files
            /\ dash' = IdleDash
  /\ out' = NoResponse
  /\ UNCHANGED <<clock, metaFile, loop, req, dashRuns, hist, clean>>

\* main: METADATA_FILE.unlink(missing_ok=True), st.success, st.rerun()
DashUnlinkMetadata ==
  /\ dash.pc = "unlink" /\ dash.todo = {}
  /\ metaFile' = UnlinkMetadata(metaFile)
  /\ hist' = <<>>
  /\ dash' = IdleDash
  /\ out' = NoResponse
  /\ UNCHANGED <<clock, files, loop, req, dashRuns, clean>>

main ==
  \/ DashUploadOpen
  \/ DashSaveImage
  \/ DashLoad
  \/ DashOpen
  \/ DashDump
  \/ DashClearGlob
  \/ DashUnlink
  \/ DashUnlinkMetadata

(* --------------------------- specifications ---------------------------- *)
Backend ==
  \E r \in Reqs :
    \/ Arrive(r)
    \/ upload_image(r)
    \/ list_images(r)
    \/ get_latest(r)
    \/ clear_all(r)

\* the backend and the dashboard on one directory
Next == Tick \/ Backend \/ main
Spec == Init /\ [][Next]_vars

\* the backend alone
NextBackend == Tick \/ Backend
SpecBackend == Init /\ [][NextBackend]_vars

\* the operations of both processes one after the other: no handler of the
\* backend runs during a script run of the dashboard, and no script run
\* begins while a handler holds the loop
BackendTurn == dash.pc = "idle" /\ Backend
DashboardTurn == loop = 0 /\ main
NextSerial == Tick \/ BackendTurn \/ DashboardTurn
SpecSerial == Init /\ [][NextSerial]_vars

(* ------------------------------- claims -------------------------------- *)
Last(s) == s[Len(s)]
Front(s) == SubSeq(s, 1, Len(s) - 1)
IsPrefix(s, t) == Len(s) <= Len(t) /\ SubSeq(t, 1, Len(s)) = s
StartsWith(s, prefix) == IsPrefix(prefix, s)
\* no handler of the backend and no script run of the dashboard is under way
Quiescent == loop = 0 /\ dash.pc = "idle"
\* the backend answers an upload with 200 in this state
UploadOk == out.kind = "upload" /\ out.resp.code = 200
\* the backend answers an upload with 500 in this state
UploadFailed == out.kind = "upload" /\ out.resp.code = 500

\* C1: an upload is answered 200 only by the handler that has made its two
\* vision calls, then written the image file its response names, then
\* saved the list it found plus its one record, in this order; the answer
\* itself writes nothing.
C1_PersistedBeforeResponse ==
  [][\A r \in Reqs :
       (out'.r = r /\ out'.kind = "upload" /\ out'.resp.code = 200) =>
         /\ req[r].did = <<"vision", "vision", "image", "metadata">>
         /\ out'.resp.filename = req[r].filename
         /\ req[r].filename \in DOMAIN files
         /\ files[req[r].filename] = req[r].image
         /\ metaFile.state = "json"
         /\ metaFile.content = Append(hist, UploadEntry(req[r]))
         /\ Last(metaFile.content).filename = out'.resp.filename
         /\ files' = files /\ metaFile' = metaFile
         /\ out'.resp.status = "success" /\ out'.resp.message = req[r].short]_vars

\* an upload has been answered 200 with the vision calls answered
C1_Witness == UploadOk /\ out.apiErr = {} /\ Len(hist) = 1

ClearCompletes ==
  \/ \E r \in Reqs : req[r].kind = "clear" /\ req[r].pc = "dump" /\ req'[r].pc = "done"
  \/ dash.pc = "unlink" /\ dash.todo = {} /\ dash'.pc = "idle"

RecordFields ==
  {"filename", "timestamp", "ai_response_short", "ai_response_detailed", "size"}
C3_FiveFields ==
  \A i \in 1..Len(metaFile.content) : DOMAIN metaFile.content[i] = RecordFields

\* from opening the image through save_metadata, and the steps of clear_all
InHandler(r) ==
  req[r].pc \in {"vision", "saveimg", "load", "open", "dump", "respond", "unlink"}

\* C4: at most one request of the backend is inside its handler, and
\* whenever the loop is free the list is a JSON document holding exactly
\* the records of the uploads answered 200 since the last /clear.
C4_OneAtATime ==
  /\ \A r1, r2 \in Reqs : InHandler(r1) /\ InHandler(r2) => r1 = r2
  /\ \A r \in Reqs : InHandler(r) => loop = r
  /\ loop = 0 => metaFile.state # "partial" /\ metaFile.content = hist

\* a second request is in flight while the handler of an upload is between
\* load_metadata and save_metadata
C4_Witness ==
  \E r1, r2 \in Reqs :
    /\ req[r1].pc = "open" /\ req[r1].kind = "upload"
    /\ req[r2].pc = "start"

\* "quota" in text, whatever the case of its letters
HasQuotaAnyCase(text) ==
  \E i \in 1..(Len(text) - 4) :
    /\ text[i] \in {"q", "Q"}
    /\ text[i + 1] \in {"u", "U"}
    /\ text[i + 2] \in {"o", "O"}
    /\ text[i + 3] \in {"t", "T"}
    /\ text[i + 4] \in {"a", "A"}
\* API_KEY or api_key in text
HasApiKey(text) ==
  \E i \in 1..(Len(text) - 6) :
    \/ <<text[i], text[i+1], text[i+2], text[i+3], text[i+4], text[i+5], text[i+6]>>
         = <<"A","P","I","_","K","E","Y">>
    \/ <<text[i], text[i+1], text[i+2], text[i+3], text[i+4], text[i+5], text[i+6]>>
         = <<"a","p","i","_","k","e","y">>

\* C5: POST /upload is answered 200, 400 or 500, and a 500 has status
\* "error" and the message the text of the exception selects.
C5_ErrorMapped ==
  out.kind = "upload" =>
    /\ out.resp.code \in {200, 400, 500}
    /\ out.resp.code = 500 =>
         /\ DOMAIN out.resp = {"code", "status", "message", "cause", "exc"}
         /\ out.resp.status = "error"
         /\ out.resp.message =
              IF HasApiKey(out.resp.exc) THEN "API key error"
              ELSE IF HasQuotaAnyCase(out.resp.exc) THEN "API quota exceeded"
              ELSE "Processing error"

\* a failed save_metadata whose exception says QUOTA is answered 500
C5_Witness ==
  /\ UploadFailed /\ out.resp.cause = "save"
  /\ out.resp.exc = QuotaCapText /\ out.resp.message = "API quota exceeded"

\* C6: an upload whose vision calls raised is failed by the file
\* operations only, after both calls; answered 200 it has written its image
\* file and appended a record that holds the error texts.
C6_VisionFailureTolerated ==
  (out.kind = "upload" /\ out.apiErr # {}) =>
    /\ out.resp.code \in {200, 500}
    /\ out.resp.code = 500 =>
         /\ out.resp.cause \in {"image", "load", "save"}
         /\ SubSeq(out.did, 1, 2) = <<"vision", "vision">>
    /\ out.resp.code = 200 =>
         /\ out.resp.filename \in DOMAIN files
         /\ metaFile.state = "json" /\ metaFile.content # <<>>
         /\ Last(metaFile.content).filename = out.resp.filename
         /\ "short" \in out.apiErr =>
              /\ StartsWith(Last(metaFile.content).ai_response_short, ErrorPrefix)
              /\ out.resp.message = Last(metaFile.content).ai_response_short
         /\ "detailed" \in out.apiErr =>
              StartsWith(Last(metaFile.content).ai_response_detailed, DetailedPrefix)

\* an upload whose two vision calls raised has been answered 200
C6_Witness == UploadOk /\ out.apiErr = {"short", "detailed"}

C8_DistinctFiles ==
  (clean /\ Quiescent) =>
    /\ \A i, j \in 1..Len(metaFile.content) :
         metaFile.content[i].filename = metaFile.content[j].filename => i = j
    /\ Cardinality(GlobJpg(files)) = Len(metaFile.content)

\* C9 as claimed: after successful uploads of the two processes only, every
\* acknowledged record is in the list.
C9_NoLostRecord ==
  (clean /\ Quiescent) =>
    /\ metaFile.state # "partial"
    /\ \A i \in 1..Len(hist) :
         \E j \in 1..Len(metaFile.content) : metaFile.content[j] = hist[i]

====
